---- MODULE Spec2Model ----
(***************************************************************************)
(* Model of tauri-plugin-subscriptions: the dispatcher commands of         *)
(* src/lib.rs and the two platform adapters, src/android.rs and            *)
(* src/ios.rs.  A build targets exactly one platform (cfg(target_os)), so  *)
(* the platform is chosen once, in Init.  Commands are async tauri         *)
(* commands: several requests may be in flight at once, each on its own    *)
(* task, so every request is a small process whose steps interleave at     *)
(* the points where the code touches shared state (the set-once            *)
(* SUBSCRIPTIONS_INSTANCE cell) or the native side.                        *)
(***************************************************************************)
EXTENDS Integers, Sequences, FiniteSets, TLC

\* ---------------------------------------------------------------- bounds
NThreads == 2      \* tasks that may run requests concurrently
MaxCalls == 3      \* requests (commands and initialisations) issued in a run
MaxIds == 1        \* longest product_ids list passed to get_products
MaxHandle == 2     \* distinct raw jobject values getInstance may hand back
RandMod == 2       \* values rand::random::<u64>() is drawn from (stands for 2^64)

Threads == 1 .. NThreads
Handles == 1 .. MaxHandle
None == 0          \* OnceCell empty / Option::None

\* seconds, as the literals of the adapters compute them
FifteenDays == 15 * 24 * 60 * 60
ThirtyDays == 30 * 24 * 60 * 60
\* SystemTime::now(), in seconds since the epoch: no claim reads the clock, so
\* one instant stands for it (late enough for `now - 15 days` not to underflow)
Times == {FifteenDays + 1}

ProductIds == {"sub.monthly", "unknown.id"}
MockRestoredId == "com.example.subscription.monthly"
\* how the purchase flow of a request would end on the native side
UserActions == {"success", "cancel"}
\* the ids the platform store's catalogue knows
store == {"sub.monthly"}
Platforms == {"ios", "android", "other"}

RECURSIVE SeqsUpTo(_, _)
SeqsUpTo(S, n) ==
  IF n = 0 THEN {<<>>}
  ELSE LET shorter == SeqsUpTo(S, n - 1)
       IN shorter \cup {Append(s, x) : s \in {q \in shorter : Len(q) = n - 1}, x \in S}

IdLists == SeqsUpTo(ProductIds, MaxIds)

\* ------------------------------------------------------- result values
Ok(v) == [tag |-> "Ok", val |-> v]
Err(kind, msg) == [tag |-> "Err", kind |-> kind, msg |-> msg]
\* a `?` on a jni / tauri error: the native error is propagated to the caller
NativeErr == [tag |-> "Err", kind |-> "NativeError", msg |-> "native call failed"]
\* `.unwrap()` on an Err / None: the task panics, the command never answers
Panic == [tag |-> "Panic"]
NoResult == [tag |-> "None"]

\* ------------------------------------------------------------ the state
VARIABLES
  platform,   \* the build target: cfg(target_os)
  instance,   \* android.rs SUBSCRIPTIONS_INSTANCE: None or the stored jobject
  registered, \* ios.rs: `register` messages sent to the Subscriptions class
  purchased,  \* the account: ids for which purchase_product has answered Ok
  calls,      \* requests issued so far
  req         \* per task: the request it is running

vars == <<platform, instance, registered, purchased, calls, req>>

Idle ==
  [op |-> "none", pc |-> "idle", ids |-> <<>>, pid |-> "", user |-> "",
   h |-> None, cell |-> <<>>, filled |-> FALSE, strong |-> 0,
   cb |-> "none", result |-> NoResult]

Init ==
  /\ platform \in Platforms
  /\ instance = None
  /\ registered = 0
  /\ purchased = {}
  /\ calls = 0
  /\ req = [t \in Threads |-> Idle]

Set(t, r) == req' = [req EXCEPT ![t] = r]
Finish(t, res) == Set(t, [req[t] EXCEPT !.pc = "done", !.result = res])

\* ------------------------------------------------------ pure functions
Some(x) == <<x>>
OptNone == <<>>

\* a fallback that answers the list commands with an empty success
UnsupportedPlatformSilent(op) ==
  IF op \in {"get_products", "restore_purchases"} THEN Ok(<<>>)
  ELSE Err("PlatformError", "unsupported platform")

\* lib.rs: the branch compiled when the target is neither iOS nor Android
UnsupportedPlatform(op) ==
  CASE op = "get_products" ->
         Err("PlatformError", "Subscriptions are only supported on iOS and Android")
    [] op = "purchase_product" ->
         Err("PlatformError", "Purchases are only supported on iOS and Android")
    [] op = "restore_purchases" ->
         Err("PlatformError", "Restoring purchases is only supported on iOS and Android")
    [] op = "get_subscription_status" ->
         Err("PlatformError", "Subscription status checking is only supported on iOS and Android")

\* the Product both adapters build for a requested id, whatever the store knows
MockProduct(id) ==
  [id |-> id, title |-> <<"Product ", id>>, description |-> "Description",
   price |-> "$9.99", currency_code |-> "USD", product_type |-> "Subscription",
   subscription_period |-> Some("Month"), subscription_period_unit |-> Some(1)]

\* `for id in product_ids.iter() { mock_products.push(..) }`
MockProducts(ids) == [i \in 1 .. Len(ids) |-> MockProduct(ids[i])]

\* format!("android_transaction_{}", r) / format!("ios_transaction_{}", r)
TransactionId(prefix, r) == <<prefix, r>>

TxPrefix == IF platform = "ios" THEN "ios_transaction_" ELSE "android_transaction_"

\* the PurchaseResult purchase_product_* answers with
MockPurchase(pid, r, now) ==
  [product_id |-> pid, transaction_id |-> TransactionId(TxPrefix, r),
   purchase_time |-> now, is_acknowledged |-> TRUE,
   subscription_expiry_time |-> Some(now + ThirtyDays),
   receipt_data |-> Some("sample_receipt_data")]

\* the one-element vector restore_purchases_* answers with
MockRestored(r, now) ==
  << [product_id |-> MockRestoredId, transaction_id |-> TransactionId(TxPrefix, r),
      purchase_time |-> now - FifteenDays, is_acknowledged |-> TRUE,
      subscription_expiry_time |-> Some(now + FifteenDays),
      receipt_data |-> Some("sample_receipt_data")] >>

\* the SubscriptionStatus get_subscription_status_* answers with
MockStatus(pid, now) ==
  [product_id |-> pid, is_active |-> TRUE, expiry_date |-> Some(now + FifteenDays),
   auto_renew_status |-> TRUE, is_in_trial_period |-> FALSE,
   is_in_grace_period |-> FALSE]

\* a plain store: the later initialisation replaces the handle
OnceCellOverwrite(cell, v) == [cell |-> v, ok |-> TRUE]

\* a set that keeps the first value but reports success all the same
OnceCellSetQuiet(cell, v) ==
  IF cell = None THEN [cell |-> v, ok |-> TRUE] ELSE [cell |-> cell, ok |-> TRUE]

\* OnceCell::set: stores only into an empty cell, Err(value) otherwise
OnceCellSet(cell, v) ==
  IF cell = None THEN [cell |-> v, ok |-> TRUE] ELSE [cell |-> cell, ok |-> FALSE]

\* Arc::try_unwrap(result).unwrap().into_inner().unwrap() and the match on it:
\* try_unwrap gives the cell only to the holder of the last strong reference
UnwrapResult(r) ==
  IF r.strong # 1 THEN Panic
  ELSE IF r.filled THEN Ok(r.cell)
  ELSE Err("ProductRetrievalError", "Failed to retrieve products")

\* --------------------------------------------- lib.rs: the command surface
\* a task takes its next request once the previous one has answered
Call(t) ==
  /\ req[t].pc \in {"idle", "done"}
  /\ calls < MaxCalls
  /\ calls' = calls + 1
  /\ UNCHANGED <<platform, instance>>

Done(r, res) == [r EXCEPT !.pc = "done", !.result = res]

\* `let result = Arc::new(Mutex::new(None)); let result_clone = result.clone();`
NewCell(r) == [r EXCEPT !.cell = <<>>, !.filled = FALSE, !.strong = 2]

\* ------------------------------------------------------------ android.rs
\* the head of every android function: get_activity()? and
\* JavaVM::from_raw(..)?.attach_current_thread()?, either of which may fail
AndroidEnv(r) == {[r EXCEPT !.pc = "handle"], Done(r, NativeErr)}

\* init_android up to the store: the head, then find_class,
\* get_static_method_id and Subscriptions.getInstance(activity)
init_android(r) ==
  {[r EXCEPT !.h = got, !.pc = "set"] : got \in Handles} \cup {Done(r, NativeErr)}

\* SUBSCRIPTIONS_INSTANCE.set(instance.into_raw()).map_err(..)?; Ok(())
AndroidSetInstance(t) ==
  /\ req[t].pc = "set"
  /\ LET s == OnceCellSet(instance, req[t].h)
     IN /\ instance' = s.cell
        /\ Finish(t, IF s.ok THEN Ok(<<>>)
                     ELSE Err("PlatformError", "Failed to initialize Subscriptions"))
  /\ UNCHANGED <<platform, registered, purchased, calls>>

\* the missing handle reported as an empty success
NotInitializedAsOk == Ok(<<>>)

\* `match SUBSCRIPTIONS_INSTANCE.get()`, the same in all four commands
NotInitialized == Err("PlatformError", "Subscriptions not initialized")

\* the rest of get_products_android: the handle, the ArrayList of ids (each JNI
\* call may fail), the mock list written into the result cell, the unwrap.
\* No native query is made and no callback exists; result_clone is still in
\* scope when `result` is unwrapped.
get_products_android(t) ==
  /\ req[t].op = "get_products" /\ req[t].pc = "handle"
  /\ IF instance = None THEN Finish(t, NotInitialized)
     ELSE \E ok \in BOOLEAN :
       IF ok THEN LET r == [req[t] EXCEPT !.h = instance, !.cell = MockProducts(req[t].ids),
                                          !.filled = TRUE]
                  IN Set(t, Done(r, UnwrapResult(r)))
       ELSE Finish(t, NativeErr)
  /\ UNCHANGED <<platform, instance, registered, purchased, calls>>

\* "Mock successful purchase": no purchase flow is started, req[t].user is not read
purchase_product_android(t) ==
  /\ req[t].op = "purchase_product" /\ req[t].pc = "handle"
  /\ IF instance = None THEN Finish(t, NotInitialized) /\ purchased' = purchased
     ELSE \E r \in 0 .. (RandMod - 1), now \in Times :
       LET p == MockPurchase(req[t].pid, r, now)
       IN /\ Set(t, Done([req[t] EXCEPT !.h = instance], Ok(p)))
          /\ purchased' = purchased \cup {p.product_id}
  /\ UNCHANGED <<platform, instance, registered, calls>>

\* "Mock restored purchases": the history is not read
restore_purchases_android(t) ==
  /\ req[t].op = "restore_purchases" /\ req[t].pc = "handle"
  /\ IF instance = None THEN Finish(t, NotInitialized)
     ELSE \E r \in 0 .. (RandMod - 1), now \in Times :
       Set(t, Done([req[t] EXCEPT !.h = instance], Ok(MockRestored(r, now))))
  /\ UNCHANGED <<platform, instance, registered, purchased, calls>>

\* "Mock subscription status": the history is not read
get_subscription_status_android(t) ==
  /\ req[t].op = "get_subscription_status" /\ req[t].pc = "handle"
  /\ IF instance = None THEN Finish(t, NotInitialized)
     ELSE \E now \in Times :
       Set(t, Done([req[t] EXCEPT !.h = instance], Ok(MockStatus(req[t].pid, now))))
  /\ UNCHANGED <<platform, instance, registered, purchased, calls>>

\* ---------------------------------------------------------------- ios.rs
\* Class::get("Subscriptions"), which may find no class
ClassNotFound == Err("PlatformError", "Subscriptions class not found")

\* what the completion block does when the native side runs it
CompletionBlock(r) == [r EXCEPT !.cell = MockProducts(r.ids), !.filled = TRUE, !.cb = "fired"]

\* get_products_ios up to its read of the cell: Class::get, `shared`, then
\* getProducts:completion: is sent.  The native side may run the block inside
\* the call or keep it for later; the adapter goes on without waiting.  The
\* block borrows result_clone, so the clone stays alive in the function's scope.
get_products_ios(r) ==
  {Done(r, ClassNotFound), [CompletionBlock(r) EXCEPT !.pc = "unwrap"],
   [r EXCEPT !.cb = "pending", !.pc = "unwrap"]}

\* the native side runs a block it kept.  While the request is still before its
\* read the block fills the cell.  After the request has ended the block's
\* borrows of product_ids and result_clone dangle: the write is lost, or the
\* process aborts and every request still running ends with it.
IosCompletion(t) ==
  /\ req[t].cb = "pending"
  /\ IF req[t].pc = "unwrap" THEN Set(t, CompletionBlock(req[t]))
     ELSE \E abort \in BOOLEAN :
       req' = [u \in Threads |->
                 IF u = t THEN [req[t] EXCEPT !.cb = "fired"]
                 ELSE IF abort /\ req[u].pc \notin {"idle", "done"} THEN Done(req[u], Panic)
                 ELSE req[u]]
  /\ UNCHANGED <<platform, instance, registered, purchased, calls>>

\* the match on Arc::try_unwrap(result).unwrap().into_inner().unwrap()
IosUnwrap(t) ==
  /\ req[t].pc = "unwrap"
  /\ Finish(t, UnwrapResult(req[t]))
  /\ UNCHANGED <<platform, instance, registered, purchased, calls>>

\* "Mock successful purchase": r.user is not read
purchase_product_ios(r) ==
  {Done(r, Ok(MockPurchase(r.pid, x, now))) : x \in 0 .. (RandMod - 1), now \in Times}

restore_purchases_ios(r) ==
  {Done(r, Ok(MockRestored(x, now))) : x \in 0 .. (RandMod - 1), now \in Times}

get_subscription_status_ios(r) == {Done(r, Ok(MockStatus(r.pid, now))) : now \in Times}

\* -------------------------------------- lib.rs: the dispatcher commands
get_products(t) ==
  /\ Call(t)
  /\ \E ids \in IdLists :
       LET r == NewCell([Idle EXCEPT !.op = "get_products", !.ids = ids])
       IN \E n \in (CASE platform = "ios" -> get_products_ios(r)
                      [] platform = "android" -> AndroidEnv(r)
                      [] OTHER -> {Done(r, UnsupportedPlatform("get_products"))}) :
            Set(t, n)
  /\ UNCHANGED <<registered, purchased>>

purchase_product(t) ==
  /\ Call(t)
  /\ \E pid \in ProductIds, user \in UserActions :
       LET r == [Idle EXCEPT !.op = "purchase_product", !.pid = pid, !.user = user]
       IN \E n \in (CASE platform = "ios" -> purchase_product_ios(r)
                      [] platform = "android" -> AndroidEnv(r)
                      [] OTHER -> {Done(r, UnsupportedPlatform("purchase_product"))}) :
            /\ Set(t, n)
            /\ purchased' = IF n.result.tag = "Ok" THEN purchased \cup {pid} ELSE purchased
  /\ UNCHANGED registered

restore_purchases(t) ==
  /\ Call(t)
  /\ LET r == [Idle EXCEPT !.op = "restore_purchases"]
     IN \E n \in (CASE platform = "ios" -> restore_purchases_ios(r)
                    [] platform = "android" -> AndroidEnv(r)
                    [] OTHER -> {Done(r, UnsupportedPlatform("restore_purchases"))}) :
          Set(t, n)
  /\ UNCHANGED <<registered, purchased>>

get_subscription_status(t) ==
  /\ Call(t)
  /\ \E pid \in ProductIds :
       LET r == [Idle EXCEPT !.op = "get_subscription_status", !.pid = pid]
       IN \E n \in (CASE platform = "ios" -> get_subscription_status_ios(r)
                      [] platform = "android" -> AndroidEnv(r)
                      [] OTHER -> {Done(r, UnsupportedPlatform("get_subscription_status"))}) :
            Set(t, n)
  /\ UNCHANGED <<registered, purchased>>

\* init_ios: Class::get and `msg_send![subscriptions_class, register]`; the
\* adapter keeps no handle of its own
init_ios(r) == {Done(r, Ok(<<>>)), Done(r, ClassNotFound)}

\* the setup hook of init(): runs the adapter's initialisation, Ok(()) elsewhere
init(t) ==
  /\ Call(t)
  /\ LET r == [Idle EXCEPT !.op = "init"]
     IN \E n \in (CASE platform = "ios" -> init_ios(r)
                    [] platform = "android" -> {IF m.pc = "handle" THEN c ELSE m :
                                                  m \in AndroidEnv(r), c \in init_android(r)}
                    [] OTHER -> {Done(r, Ok(<<>>))}) :
          /\ Set(t, n)
          /\ registered' = IF platform = "ios" /\ n.result.tag = "Ok"
                             THEN registered + 1 ELSE registered
  /\ UNCHANGED purchased

\* ------------------------------------------------------- specification
Next ==
  \E t \in Threads :
    \/ get_products(t)
    \/ purchase_product(t)
    \/ restore_purchases(t)
    \/ get_subscription_status(t)
    \/ init(t)
    \/ AndroidSetInstance(t)
    \/ get_products_android(t)
    \/ purchase_product_android(t)
    \/ restore_purchases_android(t)
    \/ get_subscription_status_android(t)
    \/ IosCompletion(t)
    \/ IosUnwrap(t)

Spec == Init /\ [][Next]_vars

\* an Android build: the dispatcher commands, the setup hook and android.rs
InitAndroid == Init /\ platform = "android"

NextAndroid ==
  \E t \in Threads :
    \/ get_products(t)
    \/ purchase_product(t)
    \/ restore_purchases(t)
    \/ get_subscription_status(t)
    \/ init(t)
    \/ AndroidSetInstance(t)
    \/ get_products_android(t)
    \/ purchase_product_android(t)
    \/ restore_purchases_android(t)
    \/ get_subscription_status_android(t)

SpecAndroid == InitAndroid /\ [][NextAndroid]_vars

\* a build for neither platform: only the dispatcher and the setup hook exist
InitUnsupported == Init /\ platform = "other"

NextUnsupported ==
  \E t \in Threads :
    \/ get_products(t)
    \/ purchase_product(t)
    \/ restore_purchases(t)
    \/ get_subscription_status(t)
    \/ init(t)

SpecUnsupported == InitUnsupported /\ [][NextUnsupported]_vars

\* initialisation alone, on every build: the setup hook and the set-once store
NextSetup == \E t \in Threads : init(t) \/ AndroidSetInstance(t)

SpecSetup == Init /\ [][NextSetup]_vars

TypeOK ==
  /\ platform \in Platforms
  /\ instance \in Handles \cup {None}
  /\ registered \in 0 .. MaxCalls
  /\ purchased \subseteq ProductIds
  /\ calls \in 0 .. MaxCalls

\* ------------------------------------------------------------ properties
Commands == {"get_products", "purchase_product", "restore_purchases", "get_subscription_status"}

\* C1: on a build for neither iOS nor Android every request of the four
\* dispatcher commands has ended, in the step that issued it, with a
\* PlatformError; none answers Ok, and none touches the handle or the account.
C1_UnsupportedAlwaysFails ==
  platform = "other" =>
    /\ instance = None /\ purchased = {}
    /\ \A t \in Threads :
         req[t].op \in Commands =>
           /\ req[t].pc = "done"
           /\ req[t].result.tag = "Err"
           /\ req[t].result.kind = "PlatformError"

\* the last request of a run is a command, after earlier ones, and has failed
C1_Witness ==
  /\ platform = "other"
  /\ calls = MaxCalls
  /\ \E t, u \in Threads :
       /\ t # u
       /\ req[t].op = "restore_purchases" /\ req[t].result.kind = "PlatformError"
       /\ req[u].op = "get_products" /\ req[u].ids # <<>> /\ req[u].result.kind = "PlatformError"

\* an initialisation completes in this step
InitEnds(t) == req[t].op = "init" /\ req[t].pc # "done" /\ req'[t].pc = "done"

C3_HandleWrittenOnce ==
  /\ [](\A t \in Threads : (req[t].op \in Commands /\ req[t].h # None) => req[t].h = instance)
  /\ [][/\ instance # None => instance' = instance
        /\ \A t \in Threads :
             (req[t].pc = "set" /\ req'[t].pc = "done") =>
               IF instance = None
                 THEN instance' = req[t].h /\ req'[t].result.tag = "Ok"
                 ELSE instance' = instance /\ req'[t].result.tag = "Err"]_vars

\* one initialisation lost to an earlier one while a command read the handle
C3_Witness ==
  \E t, u \in Threads :
    /\ t # u
    /\ req[t].op = "init" /\ req[t].pc = "done" /\ req[t].result.tag = "Err"
    /\ req[t].h # None /\ req[t].h # instance
    /\ req[u].op \in Commands /\ req[u].pc = "done" /\ req[u].h = instance
    /\ instance # None

\* a get_products request that went as far as reading its result cell
ReadCell(r) ==
  /\ r.op = "get_products" /\ r.pc = "done"
  /\ \/ r.result.tag \in {"Ok", "Panic"}
     \/ r.result.tag = "Err" /\ r.result.kind = "ProductRetrievalError"

\* C4: a get_products request reads its result only after the native completion
\* callback of that request has run, and it is resolved: it ends with an answer.
C4_ResultAfterCallback ==
  \A t \in Threads :
    ReadCell(req[t]) => req[t].cb = "fired" /\ req[t].result.tag # "Panic"

\* the products a get_products request resolved: its answer, or the list it
\* placed in the result cell for the answer
Resolved(r) ==
  IF r.result.tag = "Ok" THEN r.result.val ELSE IF r.filled THEN r.cell ELSE <<>>

C6_CancelGivesNoPurchase ==
  \A t \in Threads :
    (req[t].op = "purchase_product" /\ req[t].pc = "done" /\ req[t].result.tag = "Ok") =>
      req[t].user = "success"

\* C7: get_subscription_status for an id with no purchase in the account does
\* not fail with SubscriptionError, and what it answers has is_active = false
\* and no expiry_date.
C7_NeverPurchasedInactive ==
  \A t \in Threads :
    (req[t].op = "get_subscription_status" /\ req[t].pc = "done"
       /\ req[t].pid \notin purchased) =>
      /\ req[t].result.tag = "Err" => req[t].result.kind # "SubscriptionError"
      /\ req[t].result.tag = "Ok" =>
           /\ req[t].result.val.is_active = FALSE
           /\ req[t].result.val.expiry_date = OptNone

\* C8: restore_purchases on an account with no purchase does not fail with
\* PurchaseError, and the list it answers is empty.
C8_FreshAccountRestoresNothing ==
  \A t \in Threads :
    (req[t].op = "restore_purchases" /\ req[t].pc = "done" /\ purchased = {}) =>
      /\ req[t].result.tag = "Err" => req[t].result.kind # "PurchaseError"
      /\ req[t].result.tag = "Ok" => req[t].result.val = <<>>

\* the PurchaseResults a request has answered with
Purchases(r) ==
  IF r.pc # "done" \/ r.result.tag # "Ok" THEN <<>>
  ELSE IF r.op = "purchase_product" THEN <<r.result.val>>
  ELSE IF r.op = "restore_purchases" THEN r.result.val
  ELSE <<>>

\* C9: the PurchaseResult of a purchase_product request shares its
\* transaction_id with no PurchaseResult answered to another request.
C9_TransactionIdsUnique ==
  \A t, u \in Threads :
    (t # u /\ req[t].op = "purchase_product") =>
      \A i \in 1 .. Len(Purchases(req[t])), j \in 1 .. Len(Purchases(req[u])) :
        Purchases(req[t])[i].transaction_id # Purchases(req[u])[j].transaction_id

\* C10: on Android a command that has obtained the activity and attached to
\* the JVM, and finds the handle unset, ends with
\* PlatformError("Subscriptions not initialized"), records no purchase and
\* leaves the handle unset.
C10_UnsetHandleRejects ==
  [][\A t \in Threads :
       (req[t].op \in Commands /\ req[t].pc = "handle" /\ req'[t].pc # "handle"
          /\ instance = None) =>
         /\ req'[t].pc = "done"
         /\ req'[t].result = Err("PlatformError", "Subscriptions not initialized")
         /\ instance' = None
         /\ purchased' = purchased]_vars

\* two different commands have been turned away while the handle is unset
C10_Witness ==
  /\ platform = "android" /\ instance = None
  /\ \E t, u \in Threads :
       /\ req[t].op = "purchase_product" /\ req[u].op = "get_products" /\ req[u].ids # <<>>
       /\ req[t].result = Err("PlatformError", "Subscriptions not initialized")
       /\ req[u].result = Err("PlatformError", "Subscriptions not initialized")

\* C11: get_products_android always ends with a result value and never aborts:
\* when the result cell is unwrapped the request holds its only reference, so
\* once the handle is read and the native calls succeed the answer is Ok with
\* one Product per requested id, in request order.
C11_GetProductsNeverAborts ==
  \A t \in Threads :
    (platform = "android" /\ req[t].op = "get_products" /\ req[t].pc = "done") =>
      /\ req[t].result.tag # "Panic"
      /\ req[t].filled =>
           /\ req[t].strong = 1
           /\ req[t].result.tag = "Ok"
           /\ Len(req[t].result.val) = Len(req[t].ids)
           /\ \A i \in 1 .. Len(req[t].ids) : req[t].result.val[i].id = req[t].ids[i]

====
